---- MODULE Spec2Model ----
(***************************************************************************)
(* Model of main.py: the token monitor (MonitorClass.start_listen and its  *)
(* helpers), the chat-id file (load_all_chat_ids / save_chat_id) and the   *)
(* Telegram start handler.                                                 *)
(*                                                                         *)
(* Everything runs on one asyncio event loop: a coroutine is only          *)
(* suspended at an await that really yields (bot.send_message,             *)
(* asyncio.sleep).  The code between two such points is one step.  The     *)
(* one exception is the write of the chat-id file, which is split in two   *)
(* (open+truncate, dump+close) because a process crash can fall between.   *)
(***************************************************************************)
EXTENDS Integers, Sequences, FiniteSets, TLC

\* ------------------------------------------------------------------ bounds
MaxCatalog == 2      \* longest catalog the endpoint returns
NumChats == 2        \* number of distinct chat ids that may subscribe

\* ------------------------------------------------------------ value spaces
TokenIds == {"A", "B"}
ChatIds == 1..NumChats

\* A raw catalog record: a JSON object.  tokenId may be absent or empty.
RawTokens ==
    {[tokenId |-> i, name |-> "n"] : i \in TokenIds \cup {""}} \cup {[name |-> "n"]}

Catalogs == UNION {[1..n -> RawTokens] : n \in 0..MaxCatalog}

\* Python's None / a list value, for token_list and tokens.
None == [isNone |-> TRUE, v |-> <<>>]
Some(l) == [isNone |-> FALSE, v |-> l]

\* The outcome of a call: a returned value or a raised exception.
Return(x) == [raised |-> FALSE, value |-> x]
Raise(x) == [raised |-> TRUE, value |-> x]

\* HTTP responses seen by fetch_list: a transport/JSON error, or an envelope.
Responses ==
    {[kind |-> "error", success |-> FALSE, data |-> <<>>]}
    \cup {[kind |-> "json", success |-> FALSE, data |-> <<>>]}
    \cup {[kind |-> "json", success |-> TRUE, data |-> c] : c \in Catalogs}

\* ---------------------------------------------------------------- helpers
\* dict.get(key, default)
Get(raw, key, default) == IF key \in DOMAIN raw THEN raw[key] ELSE default

\* fetch_list: requests.get / resp.json() raise; success false gives None.
fetch_list(resp) ==
    IF resp.kind = "error" THEN Raise(None)
    ELSE IF resp.success THEN Return(Some(resp.data))
    ELSE Return(None)

\* _to_token_info: six fields, each with a default; nothing else is copied.
_to_token_info(raw) ==
    [tokenId |-> Get(raw, "tokenId", ""),
     name |-> Get(raw, "name", ""),
     symbol |-> Get(raw, "symbol", ""),
     price |-> Get(raw, "price", ""),
     onlineTge |-> Get(raw, "onlineTge", FALSE),
     onlineAirdrop |-> Get(raw, "onlineAirdrop", FALSE)]

\* The keys the message template of announce_bot subscripts.
TemplateKeys ==
    {"name", "symbol", "tokenId", "contractAddress", "price", "listingTime",
     "onlineTge", "onlineAirdrop"}

\* The f-string of announce_bot: tokenInfo[k] raises KeyError on a missing key.
Render(tokenInfo) ==
    IF TemplateKeys \subseteq DOMAIN tokenInfo
    THEN Return(<<tokenInfo["name"], tokenInfo["tokenId"]>>)
    ELSE Raise(<<"KeyError">>)

\* compareLists: t["tokenId"] raises KeyError on a record without the key.
compareLists(old, new) ==
    IF \E i \in 1..Len(old) : "tokenId" \notin DOMAIN old[i]
       THEN Raise(FALSE)
    ELSE IF \E i \in 1..Len(new) : "tokenId" \notin DOMAIN new[i]
       THEN Raise(FALSE)
    ELSE Return({old[i]["tokenId"] : i \in 1..Len(old)}
                 # {new[i]["tokenId"] : i \in 1..Len(new)})

RECURSIVE MapTokenInfo(_)
MapTokenInfo(s) ==
    IF s = <<>> THEN <<>> ELSE <<_to_token_info(Head(s))>> \o MapTokenInfo(Tail(s))

\* A test that keeps the entries whose id is already stored (in for not in).
findNewTokenInverted(old, new) ==
    IF old = <<>> THEN <<>>
    ELSE LET old_ids == {old[i]["tokenId"] :
                            i \in {j \in 1..Len(old) : "tokenId" \in DOMAIN old[j]}}
             IsOld(t) == LET tid == Get(t, "tokenId", "")
                         IN tid # "" /\ tid \in old_ids
         IN MapTokenInfo(SelectSeq(new, IsOld))

\* findNewToken: [] for an empty stored list, else the entries of tokens with a
\* non-empty id that is not an id of the stored list, in order.
findNewToken(old, new) ==
    IF old = <<>> THEN <<>>
    ELSE LET old_ids == {old[i]["tokenId"] :
                            i \in {j \in 1..Len(old) : "tokenId" \in DOMAIN old[j]}}
             IsNew(t) == LET tid == Get(t, "tokenId", "")
                         IN tid # "" /\ tid \notin old_ids
         IN MapTokenInfo(SelectSeq(new, IsNew))

\* ---------------------------------------------------------- chat-id file
NoFile == [exists |-> FALSE, text |-> <<>>]
FileOf(t) == [exists |-> TRUE, text |-> t]

RECURSIVE Numerals(_)
Numerals(l) ==
    IF l = <<>> THEN <<>> ELSE <<ToString(Head(l))>> \o Numerals(Tail(l))

\* A dump of the new chat id alone (json.dump([chat_id], f)).
DumpLast(l) == <<"[">> \o Numerals(SubSeq(l, Len(l), Len(l))) \o <<"]">>

\* json.dump of a list of ints: the text, as a sequence of lexemes.
Dump(l) == <<"[">> \o Numerals(l) \o <<"]">>

IsNumeral(s) == \E c \in ChatIds : ToString(c) = s
FromNumeral(s) == CHOOSE c \in ChatIds : ToString(c) = s

\* json.load: JSONDecodeError on anything that is not a complete list.
Parse(text) ==
    IF /\ Len(text) >= 2
       /\ text[1] = "["
       /\ text[Len(text)] = "]"
       /\ \A i \in 2..(Len(text) - 1) : IsNumeral(text[i])
    THEN Return([i \in 1..(Len(text) - 2) |-> FromNumeral(text[i + 1])])
    ELSE Raise(<<>>)

load_all_chat_ids(file) ==
    IF ~file.exists THEN Return(<<>>) ELSE Parse(file.text)

\* A membership test that never finds the id.
InListNever(x, l) == FALSE

\* chat_id in chat_ids (line 59).
InList(x, l) == \E i \in 1..Len(l) : l[i] = x


\* ------------------------------------------------------------------ state
VARIABLES
    pc,          \* where start_listen stands: "fetch", "send" or "sleep"
    token_list,  \* MonitorClass.token_list: None or the stored snapshot
    tokens,      \* the local tokens of start_listen: the last value fetch_list returned
    newTokens,   \* the local newTokens of start_listen
    idx,         \* position of the for loop of start_listen in newTokens
    chat_ids,    \* the local chat_ids of the running announce_bot call
    cidx,        \* position of the for loop of announce_bot in chat_ids
    chat_file,   \* the file CHAT_FILE on disk
    wpc,         \* save_chat_id: "idle", or "writing" between open(..., "w") and close
    wlist,       \* the local chat_ids of save_chat_id while it writes
    cycle,       \* history: how the current or latest cycle of start_listen went
    sent,        \* history: the send_message calls of the current or latest cycle
    loads,       \* history: what load_all_chat_ids returned to each announce_bot call of the cycle
    preWrite,    \* history: the file as it was when save_chat_id opened it
    saved,       \* history: the chat ids whose save_chat_id has returned
    history      \* history: the collections the file has held between whole adds

monitorVars == <<pc, token_list, tokens, newTokens, idx, chat_ids, cidx, cycle, sent, loads>>
storeVars == <<chat_file, wpc, wlist, preWrite, saved, history>>
vars == <<pc, token_list, tokens, newTokens, idx, chat_ids, cidx, chat_file, wpc, wlist,
          cycle, sent, loads, preWrite, saved, history>>

\* The monitor's part of the state as one record, so that the steps of
\* start_listen can be written as functions from record to record.
Cur ==
    [pc |-> pc, token_list |-> token_list, tokens |-> tokens, newTokens |-> newTokens,
     idx |-> idx, chat_ids |-> chat_ids, cidx |-> cidx, cycle |-> cycle,
     sent |-> sent, loads |-> loads]

SetMonitor(m) ==
    /\ pc' = m.pc
    /\ token_list' = m.token_list
    /\ tokens' = m.tokens
    /\ newTokens' = m.newTokens
    /\ idx' = m.idx
    /\ chat_ids' = m.chat_ids
    /\ cidx' = m.cidx
    /\ cycle' = m.cycle
    /\ sent' = m.sent
    /\ loads' = m.loads

\* MonitorClass.__init__ and the first entry into start_listen.
MonitorInit ==
    [pc |-> "fetch", token_list |-> None, tokens |-> None, newTokens |-> <<>>,
     idx |-> 0, chat_ids |-> <<>>, cidx |-> 0, cycle |-> "none",
     sent |-> <<>>, loads |-> <<>>]

Init ==
    /\ pc = MonitorInit.pc
    /\ token_list = MonitorInit.token_list
    /\ tokens = MonitorInit.tokens
    /\ newTokens = MonitorInit.newTokens
    /\ idx = MonitorInit.idx
    /\ chat_ids = MonitorInit.chat_ids
    /\ cidx = MonitorInit.cidx
    /\ cycle = MonitorInit.cycle
    /\ sent = MonitorInit.sent
    /\ loads = MonitorInit.loads
    /\ chat_file = NoFile
    /\ wpc = "idle"
    /\ wlist = <<>>
    /\ preWrite = NoFile
    /\ saved = {}
    /\ history = {<<>>}


\* ------------------------------------------------------ start_listen steps
\* A handler that ends the loop instead of resuming it (try around the while).
ExceptHandlerStops(m, stage) == [m EXCEPT !.pc = "stopped", !.cycle = stage]

\* except Exception (lines 131-132): print, then straight back to the top of
\* the while loop; the sleep of line 129 is skipped.
ExceptHandler(m, stage) == [m EXCEPT !.pc = "fetch", !.cycle = stage]

\* await asyncio.sleep(WAIT_TIME) (line 129).
Sleep(m, outcome) ==
    [m EXCEPT !.pc = "sleep", !.cycle = outcome, !.idx = 0, !.chat_ids = <<>>, !.cidx = 0]

\* self.token_list = tokens (lines 118 and 127).
Advance(m) == [m EXCEPT !.token_list = m.tokens]

\* A failed fetch that still runs self.token_list = tokens.
FetchFailedStores(m) == Sleep(Advance(m), "fetch_none")

\* tokens is None (lines 113-114): print only.
FetchFailed(m) == Sleep(m, "fetch_none")

\* The for loop of lines 123-124 from entry i on, up to the first await that
\* yields.  announce_bot loads the chat ids, renders the message and enters
\* its own for loop; with no chat id it returns without yielding.
RECURSIVE AnnounceFrom(_, _, _)
AnnounceFrom(m, i, file) ==
    IF i > Len(m.newTokens) THEN Sleep(Advance(m), "announced")
    ELSE LET loaded == load_all_chat_ids(file)
             message == Render(m.newTokens[i])
         IN IF loaded.raised THEN ExceptHandler(m, "announce_raised")
            ELSE LET m1 == [m EXCEPT !.loads = Append(m.loads, loaded.value)]
                 IN IF message.raised THEN ExceptHandler(m1, "announce_raised")
                    ELSE IF loaded.value = <<>> THEN AnnounceFrom(m1, i + 1, file)
                    ELSE [m1 EXCEPT !.pc = "send", !.cycle = "sending", !.idx = i,
                                    !.chat_ids = loaded.value, !.cidx = 1]

\* A first fetch that announces every entry of the catalog it stores.
SeedAnnounces(m) ==
    AnnounceFrom([Advance(m) EXCEPT !.newTokens = MapTokenInfo(m.tokens.v)], 1, chat_file)

\* self.token_list is None (lines 117-118): store the list, nothing else.
Seed(m) == Sleep(Advance(m), "seeded")

\* One pass of the while loop from fetch_list() to the first await that yields.
Cycle(m, resp, file) ==
    LET m0 == [m EXCEPT !.newTokens = <<>>, !.sent = <<>>, !.loads = <<>>,
                        !.idx = 0, !.chat_ids = <<>>, !.cidx = 0]
        r == fetch_list(resp)
    IN IF r.raised THEN ExceptHandler(m0, "fetch_raised")
       ELSE LET m1 == [m0 EXCEPT !.tokens = r.value]
            IN IF m1.tokens.isNone THEN FetchFailed(m1)
               ELSE IF m1.token_list.isNone THEN Seed(m1)
               ELSE LET isDifferent == compareLists(m1.token_list.v, m1.tokens.v)
                    IN IF isDifferent.raised THEN ExceptHandler(m1, "compare_raised")
                       ELSE IF isDifferent.value
                            THEN AnnounceFrom(
                                   [m1 EXCEPT !.newTokens =
                                        findNewToken(m1.token_list.v, m1.tokens.v)],
                                   1, file)
                            ELSE Sleep(Advance(m1), "same")

\* send_message for chat_ids[cidx] returns (ok) or raises (~ok, caught at
\* line 106); then the next chat id, or the next entry of newTokens.
OnSend(m, ok, file) ==
    LET m1 == [m EXCEPT !.sent = Append(m.sent,
                    [tokenId |-> m.newTokens[m.idx]["tokenId"],
                     chat_id |-> m.chat_ids[m.cidx], ok |-> ok])]
    IN IF m.cidx < Len(m.chat_ids) THEN [m1 EXCEPT !.cidx = m.cidx + 1]
       ELSE AnnounceFrom(m1, m.idx + 1, file)

\* start_listen runs from where it stands to its next await that yields.
StartListen ==
    /\ wpc = "idle"
    /\ pc \in {"fetch", "send"}
    /\ \E resp \in Responses, ok \in BOOLEAN :
          SetMonitor(IF pc = "fetch" THEN Cycle(Cur, resp, chat_file)
                                     ELSE OnSend(Cur, ok, chat_file))
    /\ UNCHANGED storeVars

\* asyncio.sleep(WAIT_TIME) returns: back to the top of the loop.
SleepReturns ==
    /\ wpc = "idle"
    /\ pc = "sleep"
    /\ pc' = "fetch"
    /\ UNCHANGED <<token_list, tokens, newTokens, idx, chat_ids, cidx, cycle, sent, loads>>
    /\ UNCHANGED storeVars

\* ------------------------------------------------------------ the handler
\* A save that writes the new id alone, dropping the ids it loaded.
NewListForgets(l, chat_id) == <<chat_id>>

\* The list save_chat_id writes for a new chat id (line 60).
NewList(l, chat_id) == Append(l, chat_id)

\* start(update, context): save_chat_id(chat_id) up to open(CHAT_FILE, "w").
\* It runs when the event loop is free, that is while start_listen is
\* suspended in send_message or in asyncio.sleep.
Start(chat_id) ==
    /\ wpc = "idle"
    /\ pc \in {"send", "sleep"}
    /\ LET loaded == load_all_chat_ids(chat_file)
       IN IF loaded.raised
          THEN UNCHANGED storeVars                  \* JSONDecodeError out of the handler
          ELSE IF InList(chat_id, loaded.value)
          THEN /\ saved' = saved \cup {chat_id}     \* line 59: nothing to write
               /\ UNCHANGED <<chat_file, wpc, wlist, preWrite, history>>
          ELSE /\ wlist' = NewList(loaded.value, chat_id)
               /\ chat_file' = FileOf(<<>>)         \* open(..., "w") creates or truncates
               /\ wpc' = "writing"
               /\ preWrite' = chat_file
               /\ UNCHANGED <<saved, history>>
    /\ UNCHANGED monitorVars

\* json.dump(chat_ids, f) and the close of the with block (lines 61-62).
WriteClose ==
    /\ wpc = "writing"
    /\ chat_file' = FileOf(Dump(wlist))
    /\ wpc' = "idle"
    /\ saved' = saved \cup {wlist[Len(wlist)]}
    /\ history' = history \cup {wlist}
    /\ wlist' = <<>>
    /\ preWrite' = NoFile
    /\ UNCHANGED monitorVars

\* The process is killed and started again: memory is lost, the file is what
\* reached the disk.  Inside a write that is any prefix of the text.
Crash ==
    /\ SetMonitor([MonitorInit EXCEPT !.cycle = "restarted"])
    /\ wpc' = "idle"
    /\ wlist' = <<>>
    /\ preWrite' = NoFile
    /\ IF wpc = "writing"
       THEN \E k \in 0..Len(Dump(wlist)) : chat_file' = FileOf(SubSeq(Dump(wlist), 1, k))
       ELSE chat_file' = chat_file
    /\ UNCHANGED <<saved, history>>

Next ==
    \/ StartListen
    \/ SleepReturns
    \/ \E chat_id \in ChatIds : Start(chat_id)
    \/ WriteClose

Spec == Init /\ [][Next]_vars

\* The event loop runs every coroutine that can run; synchronous code runs on.
FairSpec == Spec /\ WF_vars(StartListen) /\ WF_vars(SleepReturns) /\ WF_vars(WriteClose)

CrashNext == Next \/ Crash

CrashSpec == Init /\ [][CrashNext]_vars

TypeOK ==
    /\ pc \in {"fetch", "send", "sleep"}
    /\ wpc \in {"idle", "writing"}
    /\ token_list \in {None} \cup {Some(c) : c \in Catalogs}
    /\ tokens \in {None} \cup {Some(c) : c \in Catalogs}
    /\ saved \subseteq ChatIds

\* ------------------------------------------------------------- properties
\* The cycle of start_listen is over: the loop is back at fetch_list or asleep.
CycleOver == pc \in {"fetch", "sleep"}

\* The (entry, recipient) pairs of a sequence of send_message calls.
Attempts(s) == [i \in 1..Len(s) |-> <<s[i].tokenId, s[i].chat_id>>]

\* The sends that announcing news[1], news[2], ... to the loaded lists
\* lds[1], lds[2], ... consists of: entry by entry, recipient by recipient.
RECURSIVE ExpectedSends(_, _)
ExpectedSends(news, lds) ==
    IF news = <<>> \/ lds = <<>> THEN <<>>
    ELSE [j \in 1..Len(Head(lds)) |-> <<Head(news)["tokenId"], Head(lds)[j]>>]
         \o ExpectedSends(Tail(news), Tail(lds))

IdsOf(l) == {l[i] : i \in 1..Len(l)}
Distinct(l) == \A i, j \in 1..Len(l) : l[i] = l[j] => i = j

\* C1: a WATCHING cycle whose fetch succeeded and whose id set differs has,
\* when it is over, announced every entry findNewToken returned: one
\* announce_bot call per entry, and the sends are exactly those of each entry
\* to each loaded subscriber, entry by entry in catalog order.
C1_EveryNewEntryAnnounced ==
    (CycleOver /\ cycle \in {"announced", "announce_raised"})
        => /\ Len(loads) = Len(newTokens)
           /\ Attempts(sent) = ExpectedSends(newTokens, loads)

\* C2: rendering the message never fails for an entry made by _to_token_info
\* (the entries of newTokens are all made by it).
C2_RenderNeverFails ==
    \A i \in 1..Len(newTokens) : ~Render(newTokens[i]).raised

\* C3: a cycle that starts with token_list None and whose fetch succeeds only
\* stores the fetched list and goes to sleep: no announce_bot call, no send;
\* and once token_list is a list it never is None again.
C3_SeedingIsSilent ==
    /\ [][(pc = "fetch" /\ token_list.isNone
              /\ cycle' \notin {"fetch_raised", "fetch_none"})
            => (/\ ~tokens'.isNone
                /\ token_list' = tokens'
                /\ pc' = "sleep"
                /\ loads' = <<>>
                /\ sent' = <<>>)]_vars
    /\ [][~token_list.isNone => ~token_list'.isNone]_vars

C3_Witness ==
    cycle = "seeded" /\ ~token_list.isNone /\ Len(token_list.v) = MaxCatalog

\* C4: every announce_bot call that is over has attempted exactly one send
\* to each chat id it loaded, in order, whatever the sends returned.
C4_EverySubscriberAttempted ==
    CycleOver => Attempts(sent) = ExpectedSends(SubSeq(newTokens, 1, Len(loads)), loads)

\* C5: when a cycle whose fetch returned a list is over, token_list is that list.
C5_SnapshotFollowsFetch ==
    (CycleOver /\ cycle \in {"seeded", "same", "announced",
                              "compare_raised", "announce_raised"})
        => token_list = tokens

\* C6: the loop has no final position and is at fetch_list again and again,
\* whatever the cycles before did.
C6_LoopNeverStops == []<>(pc = "fetch")

C6_Witness ==
    pc = "fetch" /\ cycle \in {"fetch_raised", "compare_raised", "announce_raised"}

\* C7: a cycle whose fetch raises or returns None changes neither token_list
\* nor the chat-id file, makes no send and ends without announcing.
C7_FailedFetchChangesNothing ==
    [][(pc = "fetch" /\ cycle' \in {"fetch_raised", "fetch_none"})
        => (/\ token_list' = token_list
            /\ chat_file' = chat_file
            /\ sent' = <<>>
            /\ loads' = <<>>
            /\ pc' \in {"fetch", "sleep"})]_vars

C7_Witness ==
    /\ cycle \in {"fetch_raised", "fetch_none"}
    /\ ~token_list.isNone /\ token_list.v # <<>>
    /\ chat_file.exists

\* C8: between saves the file holds each id once and exactly the ids whose
\* save_chat_id returned (none without a file); a write is only begun for an
\* id that is not in the file, and the file changes only by such a write.
C8_SaveIsIdempotent ==
    /\ [](wpc = "idle" =>
            LET l == load_all_chat_ids(chat_file)
            IN /\ ~l.raised
               /\ Distinct(l.value)
               /\ IdsOf(l.value) = saved
               /\ Len(l.value) = Cardinality(saved)
               /\ (~chat_file.exists => l.value = <<>>))
    /\ [][(wpc = "idle" /\ wpc' = "writing")
            => wlist'[Len(wlist')] \notin IdsOf(load_all_chat_ids(chat_file).value)]_vars
    /\ [][(wpc = "idle" /\ wpc' = "idle") => chat_file' = chat_file]_vars

C8_Witness ==
    wpc = "idle" /\ Cardinality(saved) = NumChats

\* C9: when the process is killed inside the write of save_chat_id, the file
\* is afterwards the one from before the add or the complete new one.
C9_WriteIsAtomic ==
    [][(wpc = "writing" /\ cycle' = "restarted")
        => chat_file' \in {preWrite, FileOf(Dump(wlist))}]_vars

\* C10: no add is lost (an id whose save_chat_id returned is in the file
\* whenever no write is in progress), and what announce_bot loads is always
\* a collection the file held between two whole adds.
C10_NoLostAddNoTornRead ==
    /\ wpc = "idle" =>
          LET l == load_all_chat_ids(chat_file)
          IN ~l.raised /\ saved \subseteq IdsOf(l.value)
    /\ \A i \in 1..Len(loads) : loads[i] \in history
    /\ chat_ids \in history

C10_Witness ==
    /\ pc = "fetch"
    /\ Len(loads) > 0
    /\ Len(loads[1]) = NumChats
    /\ saved = ChatIds


\* A record with a usable identifier: tokenId present and not empty.
Usable(t) == "tokenId" \in DOMAIN t /\ t["tokenId"] # ""

\* The ids of a snapshot: those of its records that have a usable one.
IdSet(l) == {l[i]["tokenId"] : i \in {j \in 1..Len(l) : Usable(l[j])}}

\* The cycle now run by start_listen is a WATCHING one whose fetch returns a list.
WatchingFetch ==
    /\ pc = "fetch"
    /\ ~token_list.isNone
    /\ cycle' \notin {"fetch_raised", "fetch_none"}

\* C11: for the stored list A and the fetched list B of a cycle, compareLists
\* returns, and returns TRUE exactly when the id sets of A and B differ; the
\* cycle goes the "same list" way exactly when they are equal.
C11_ChangedIffIdSetsDiffer ==
    [][WatchingFetch
        => LET r == compareLists(token_list.v, tokens'.v)
           IN /\ ~r.raised
              /\ r.value <=> (IdSet(token_list.v) # IdSet(tokens'.v))
              /\ (cycle' = "same") <=> (IdSet(token_list.v) = IdSet(tokens'.v))]_vars

\* The positions of B whose entry has an id that is not an id of A.
NewIdx(A, B) == {i \in 1..Len(B) : Usable(B[i]) /\ B[i]["tokenId"] \notin IdSet(A)}

\* r is the entries of B at the positions NewIdx(A, B), one per position, in
\* the order of B.
NewEntriesOK(r, A, B) ==
    LET S == NewIdx(A, B)
    IN /\ Len(r) = Cardinality(S)
       /\ \A i \in S : r[Cardinality({j \in S : j <= i})] = _to_token_info(B[i])

\* C12: for a non-empty stored list A and a fetched list B, findNewToken
\* returns the entries of B whose id is not an id of A, one per occurrence,
\* in the order of B; and newTokens of a cycle that announced is that result.
C12_NewEntriesInOrder ==
    [][(WatchingFetch /\ token_list.v # <<>>)
        => /\ NewEntriesOK(findNewToken(token_list.v, tokens'.v), token_list.v, tokens'.v)
           /\ (cycle' \in {"announced", "announce_raised", "sending"}
                 => NewEntriesOK(newTokens', token_list.v, tokens'.v))]_vars

C12_Witness ==
    /\ cycle = "announce_raised"
    /\ token_list.v # <<>>
    /\ Len(newTokens) = 2
    /\ newTokens[1]["tokenId"] = newTokens[2]["tokenId"]

\* C13: a cycle whose fetched ids are a strict subset of the stored ids is
\* taken as changed, finds no new entry, announces and sends nothing, stores
\* the fetched list and goes to sleep.
C13_RemovalOnly ==
    [][(/\ WatchingFetch
        /\ IdSet(tokens'.v) \subseteq IdSet(token_list.v)
        /\ IdSet(tokens'.v) # IdSet(token_list.v))
        => (/\ cycle' = "announced"
            /\ newTokens' = <<>>
            /\ loads' = <<>>
            /\ sent' = <<>>
            /\ token_list' = tokens'
            /\ pc' = "sleep")]_vars

\* C14: a fetched record without a usable identifier does not make the cycle
\* fail in the diff, and is not among the entries to announce.
C14_NoIdRecordIsSkipped ==
    (/\ CycleOver
     /\ cycle \in {"same", "announced", "compare_raised", "announce_raised"}
     /\ \E i \in 1..Len(tokens.v) : ~Usable(tokens.v[i]))
        => /\ cycle # "compare_raised"
           /\ \A i \in 1..Len(newTokens) : newTokens[i]["tokenId"] # ""

\* C15: every announce_bot call loads a list that holds every chat id whose
\* save_chat_id had returned when the call began, and when the cycle is over
\* a send was attempted to each loaded chat id for the entry of that call.
C15_FreshSubscribersReached ==
    /\ [][\A i \in 1..Len(loads') :
            (pc = "fetch" \/ i > Len(loads)) => saved \subseteq IdsOf(loads'[i])]_vars
    /\ [](CycleOver =>
            \A i \in 1..Len(loads) : \A c \in IdsOf(loads[i]) :
                \E k \in 1..Len(sent) :
                    Attempts(sent)[k] = <<newTokens[i]["tokenId"], c>>)

\* The ids in the chat-id file; during a write, those it held when opened.
Persisted ==
    IdsOf(load_all_chat_ids(IF wpc = "writing" THEN preWrite ELSE chat_file).value)

\* C17: no step takes an id out of the persisted collection.
C17_SubscribersOnlyGrow == [][Persisted \subseteq Persisted']_vars

C17_Witness ==
    /\ wpc = "idle"
    /\ Persisted = ChatIds
    /\ cycle = "announce_raised"
    /\ Len(loads) > 0

\* C18: the loop only comes to fetch_list out of asyncio.sleep: every step
\* that ends at fetch_list starts in the sleep.
C18_SleepBetweenFetches == [][pc' = "fetch" => pc = "sleep"]_vars

\* C19: with the stored list empty, a successful fetch of a non-empty list is
\* taken as changed, finds no new entry, announces and sends nothing, stores
\* the fetched list and goes to sleep.
C19_EmptySnapshotIsSilent ==
    [][(/\ WatchingFetch
        /\ token_list = Some(<<>>)
        /\ tokens'.v # <<>>)
        => (/\ cycle' = "announced"
            /\ newTokens' = <<>>
            /\ loads' = <<>>
            /\ sent' = <<>>
            /\ token_list' = tokens'
            /\ pc' = "sleep")]_vars

====
